---- MODULE Spec2Model ----
(***************************************************************************)
(* GTK integration helper of Telegram Desktop (forkgram):                  *)
(* platform/linux/linux_gtk_integration.cpp, and the "send as copy"        *)
(* requests of api/api_as_copy.cpp.                                        *)
(*                                                                         *)
(* Two processes talk over the session bus.  The main process holds the    *)
(* capability proxy in remoting mode and supervises the helper with        *)
(* Start / Autorestart.  The helper process runs exec(), registers the     *)
(* bus object and dispatches method calls in handleMethodCall.             *)
(***************************************************************************)
EXTENDS Integers, Sequences, FiniteSets, TLC

(* ------------------------------------------------------------------ *)
(* Bounds of the model                                                 *)
(* ------------------------------------------------------------------ *)
MaxApi == 3         \* calls the application makes: Start, Autorestart, load, showOpenWithDialog
MaxEnv == 1         \* outside events: a helper is killed, another client calls the helper
MaxAppear == 2      \* times a type's service name gains an owner
MaxItems == 2       \* items handed to a send-as-copy call
MaxPeers == 2       \* target peers of a send-as-copy call

(* ------------------------------------------------------------------ *)
(* Program constants                                                   *)
(* ------------------------------------------------------------------ *)
kService == "org.telegram.desktop.GtkIntegration-%1"
kBaseService == "org.telegram.desktop.BaseGtkIntegration-%1"
kWebviewService == "org.telegram.desktop.GtkIntegration.WebviewHelper-%1-%2"

Base == "Base"
Webview == "Webview"
TDesktop == "TDesktop"
Types == {Base, Webview, TDesktop}
Supervised == {Base, TDesktop}

\* Bus identities: the unique name of the main process's connection and the
\* unique name of some other client of the session bus.
MainName == ":1.main"
ForeignName == ":1.other"
NoName == ""

\* The empty service name (a default-constructed Glib::ustring / QString).
EmptyService == <<>>

Methods == {"Load", "ShowOpenWithDialog", "Other"}

\* The working directories the application may be pointed at (cWorkingDir()),
\* QDir::absolutePath, which drops a trailing separator, and the md5 hex
\* digest of the encoded path.
WorkingDirs == {"/home/u/app/", "/home/u/b"}
absolutePath(d) == IF d = "/home/u/app/" THEN "/home/u/app" ELSE d
hashMd5Hex(d) == <<"md5hex", d>>

\* QString::arg: the template with %1 replaced by the argument.
ArgIgnoresTemplate(template, h) == <<"", h>>
Arg(template, h) == <<template, h>>

VARIABLES
    \* ---- main process ----
    cWorkingDir,    \* the working directory setting of the application
    busOk,          \* the session bus can be obtained (Private::dbusConnection non-null)
    parentAlive,    \* the main process still owns its unique bus name
    ServiceName,    \* file-scope ServiceName of the main process
    BaseServiceName,\* BaseGtkIntegration's service name in the main process
    watches,        \* service watchers installed by Autorestart, in order
    notif,          \* NameOwnerChanged notifications queued for the main loop
    launches,       \* processes spawned by QProcess::startDetached, not yet running
    mainPc,         \* position of the main thread inside showOpenWithDialog
    subs,           \* signal subscriptions registered on the main connection
    sigQueue,       \* OpenWithDialogResponse signals delivered to the nested loop
    modal,          \* a modal QWindow is shown
    showRet,        \* results returned by showOpenWithDialog, in order
    busCalls,       \* call_sync was issued by the main process
    loadDone,       \* load() has returned in the main process
    nShow,          \* showOpenWithDialog invocations entered
    autoSkipped,    \* Autorestart of a supervised type returned with no watch installed
    mainLoaded,     \* static bool Loaded of load() in the main process
    mainExit,       \* "none", or "crash" once the main process was terminated
    nApi,           \* calls made by the application
    nEnv,           \* outside events so far
    \* ---- application helper process (type TDesktop) ----
    hpc,            \* "none", "registered" (object registered), "running" (in app->run)
    parentDBusName, \* Private::parentDBusName of the helper
    hService,       \* file-scope ServiceName of the helper
    hWatch,         \* parentServiceWatcherId != 0
    hQuit,          \* the parent watcher saw an empty new owner: app->quit() requested
    Loaded,         \* static bool Loaded of load() in the helper
    hExit,          \* how the last helper process ended, "none" once another started
    calls,          \* ShowOpenWithDialog calls dispatched: reply, dialog, signals
    reply,          \* the reply to the method call dispatched last
    orphaned,       \* the parent left the bus while this helper process was alive
    \* ---- base helper process (type Base) ----
    baseName,       \* the service name the base helper owns, empty when none runs
    \* ---- bus history ----
    nAppear,        \* per type, how often its service name gained an owner
    nGone,          \* per type, how often its service name lost its owner
    respawn,        \* per type and disappearance, helpers spawned by watch callbacks
    reload,         \* per type and appearance, loads issued by watch callbacks
    lost            \* signals emitted for a main-process call with no subscription

VARIABLES
    \* ---- send as copy ----
    items,          \* the source items handed to the call, as indices of History
    toSend,         \* the ToSend argument: peers, comment, emptyText, silent, scheduledDraft
    andDelete,      \* the andDelete argument of SendAlbumFromItems
    localDraft,     \* per peer, history->localDraft(0)
    cloudDraft,     \* per peer, history->cloudDraft(0)
    cpc,            \* "idle", or the function that was called: "album", "group", "media"
    album,          \* the item list SendAlbumFromItems received
    requests,       \* MTPmessages_SendMultiMedia requests sent, with their state
    saveDrafts,     \* peers an MTPmessages_SaveDraft request was sent for
    sent,           \* messages handed to sendMessage / SendExistingDocument / SendExistingPhoto
    deleted         \* source items deleted by deleteMessages

copyVars == <<items, toSend, andDelete, localDraft, cloudDraft, cpc, album,
              requests, saveDrafts, sent, deleted>>

mainVars == <<cWorkingDir, busOk, parentAlive, ServiceName, BaseServiceName,
              watches, notif, launches, mainPc, subs, sigQueue, modal, showRet,
              busCalls, loadDone, nShow, autoSkipped, mainLoaded, mainExit, nApi, nEnv>>
helperVars == <<hpc, parentDBusName, hService, hWatch, hQuit, Loaded, hExit,
                calls, reply, orphaned>>
busVars == <<baseName, nAppear, nGone, respawn, reload, lost>>
gtkVars == <<mainVars, helperVars, busVars>>
vars == <<gtkVars, copyVars>>

(* ------------------------------------------------------------------ *)
(* Send as copy: the data                                              *)
(* ------------------------------------------------------------------ *)

Peers == {"p1", "p2", "p3"}
NoMedia == "none"

\* The source history: a document and a photo that form one group, a media
\* item that is neither, and a text message.
History ==
    <<[media |-> "document", text |-> " a ", groupId |-> 1],
      [media |-> "photo", text |-> "", groupId |-> 1],
      [media |-> "other", text |-> "b", groupId |-> 0],
      [media |-> NoMedia, text |-> "t", groupId |-> 0]>>

\* groups().find(item)->items
Group(i) ==
    LET F[k \in 0..Len(History)] ==
            IF k = 0 THEN <<>>
            ELSE IF History[k].groupId = History[i].groupId
                 THEN Append(F[k - 1], k) ELSE F[k - 1]
    IN F[Len(History)]

\* Sequences without repetition of at most n elements of S.
RECURSIVE Lists(_, _)
Lists(S, n) ==
    IF n = 0 THEN {<<>>}
    ELSE LET shorter == Lists(S, n - 1)
         IN shorter \cup
                UNION {{Append(l, x) : x \in S \ {l[k] : k \in DOMAIN l}} :
                          l \in shorter}

\* Drafts: p1 has a local draft replying to 5 and a cloud draft replying to
\* 6, p2 only a cloud draft replying to 6, p3 a local draft without reply and
\* a cloud draft replying to 7.
Absent == [exists |-> FALSE, reply |-> 0]
LocalDrafts ==
    [p \in Peers |-> IF p = "p1" THEN [exists |-> TRUE, reply |-> 5]
                     ELSE IF p = "p3" THEN [exists |-> TRUE, reply |-> 0]
                     ELSE Absent]
CloudDrafts ==
    [p \in Peers |-> IF p = "p3" THEN [exists |-> TRUE, reply |-> 7]
                     ELSE [exists |-> TRUE, reply |-> 6]]

Comments == {"", "hi"}

\* base::unixtime::now() + 3600 * 24 * 350
Now == 1700000000
ScheduledDraft == Now + 3600 * 24 * 350

\* No send-as-copy call is made.
CopyIdle ==
    /\ items = <<>>
    /\ toSend = [peers |-> <<>>, comment |-> "", emptyText |-> FALSE,
                 silent |-> FALSE, scheduledDraft |-> FALSE]
    /\ andDelete = FALSE
    /\ localDraft = LocalDrafts
    /\ cloudDraft = CloudDrafts
    /\ cpc = "idle"
    /\ album = <<>>
    /\ requests = <<>>
    /\ saveDrafts = <<>>
    /\ sent = <<>>
    /\ deleted = {}

\* The state after construction, with the working directory among dirs.
InitWith(dirs) ==
    /\ cWorkingDir \in dirs
    /\ busOk \in BOOLEAN
    /\ autoSkipped = FALSE
    /\ mainLoaded = FALSE
    /\ mainExit = "none"
    /\ parentAlive = TRUE
    /\ ServiceName = EmptyService
    /\ BaseServiceName = EmptyService
    /\ watches = <<>>
    /\ notif = <<>>
    /\ launches = <<>>
    /\ mainPc = "idle"
    /\ subs = 0
    /\ sigQueue = <<>>
    /\ modal = FALSE
    /\ showRet = <<>>
    /\ busCalls = FALSE
    /\ loadDone = FALSE
    /\ nShow = 0
    /\ nApi = 0
    /\ nEnv = 0
    /\ hpc = "none"
    /\ parentDBusName = NoName
    /\ hService = EmptyService
    /\ hWatch = FALSE
    /\ hQuit = FALSE
    /\ Loaded = FALSE
    /\ hExit = "none"
    /\ calls = <<>>
    /\ reply = "nocall"
    /\ orphaned = FALSE
    /\ baseName = EmptyService
    /\ nAppear = [t \in Supervised |-> 0]
    /\ nGone = [t \in Supervised |-> 0]
    /\ respawn = [t \in Supervised |-> [e \in 1..MaxAppear |-> 0]]
    /\ reload = [t \in Supervised |-> [e \in 1..MaxAppear |-> 0]]
    /\ lost = 0

Init == InitWith({"/home/u/app/"}) /\ CopyIdle

(* ------------------------------------------------------------------ *)
(* The session bus: name ownership changes and their watchers          *)
(* ------------------------------------------------------------------ *)

\* The NameOwnerChanged notifications one change of `name` queues for the
\* main loop: one per installed watch of that name, in installation order.
\* A main process that has left the bus receives nothing.
Notifications(name, gone, ev) ==
    LET F[i \in 0..Len(watches)] ==
            IF i = 0 THEN <<>>
            ELSE IF watches[i].name = name
                 THEN Append(F[i - 1], [w |-> i, gone |-> gone, ev |-> ev])
                 ELSE F[i - 1]
    IN IF parentAlive THEN F[Len(watches)] ELSE <<>>

RemoveAt(s, i) == SubSeq(s, 1, i - 1) \o SubSeq(s, i + 1, Len(s))

(* ------------------------------------------------------------------ *)
(* Helper process: the dispatcher                                      *)
(* ------------------------------------------------------------------ *)

\* if (sender != parentDBusName) { ... ACCESS_DENIED ... return; }
AuthorizedNoCheck(sender, parent) == TRUE
Authorized(sender, parent) == sender = parent

\* The helper process ends (Expects failure, kill, or return from exec):
\* its dialogs die with it and, if it owned its service name, the name
\* loses its owner.  q is the main loop's notification queue so far.
HelperGone(q, how) ==
    /\ hpc' = "none"
    /\ hExit' = how
    /\ Loaded' = FALSE
    /\ hWatch' = FALSE
    /\ hQuit' = FALSE
    /\ orphaned' = FALSE
    /\ calls' = [c \in DOMAIN calls |->
                    IF calls[c].dlg = "open"
                    THEN [calls[c] EXCEPT !.dlg = "torn"] ELSE calls[c]]
    /\ IF hpc = "running"
       THEN /\ nGone' = [nGone EXCEPT ![TDesktop] = @ + 1]
            /\ notif' = q \o Notifications(hService, TRUE, nGone[TDesktop] + 1)
       ELSE /\ nGone' = nGone
            /\ notif' = q

\* const auto integration = Instance(); if (!integration) throw ...;
InstanceUnchecked(integration) == TRUE
InstanceResolved(integration) == integration

\* GtkIntegration::Private::handleMethodCall, run by the helper's loop.
\* instOk: Instance() is not null; gtkOk: the toolkit library loads; dlgOk:
\* CreateGtkOpenWithDialog returns a dialog.  q is the main loop's
\* notification queue so far.
handleMethodCall(sender, method, instOk, gtkOk, dlgOk, q) ==
    IF ~Authorized(sender, parentDBusName) THEN
        /\ reply' = "denied"
        /\ calls' = IF method = "ShowOpenWithDialog"
                    THEN Append(calls, [reply |-> "denied", dlg |-> "none", sigs |-> 0,
                                        threw |-> FALSE])
                    ELSE calls
        /\ notif' = q
        /\ UNCHANGED <<hpc, hExit, Loaded, hWatch, hQuit, orphaned, nGone>>
    ELSE IF InstanceResolved(instOk) /\ method = "Load" THEN
        IF Loaded THEN
            \* Expects(!Loaded) fails: the process is terminated, no reply is sent
            /\ HelperGone(q, "crash")
            /\ reply' = "none"
        ELSE
            /\ Loaded' = gtkOk
            /\ reply' = "ok"
            /\ notif' = q
            /\ UNCHANGED <<hpc, hExit, hWatch, hQuit, orphaned, calls, nGone>>
    ELSE IF InstanceResolved(instOk) /\ method = "ShowOpenWithDialog" /\ dlgOk THEN
        /\ calls' = Append(calls, [reply |-> "ok", dlg |-> "open", sigs |-> 0,
                            threw |-> FALSE])
        /\ reply' = "ok"
        /\ notif' = q
        /\ UNCHANGED <<hpc, hExit, Loaded, hWatch, hQuit, orphaned, nGone>>
    ELSE
        /\ calls' = IF method = "ShowOpenWithDialog"
                    THEN Append(calls, [reply |-> "unknown", dlg |-> "none", sigs |-> 0,
                                        threw |-> FALSE])
                    ELSE calls
        /\ reply' = "unknown"
        /\ notif' = q
        /\ UNCHANGED <<hpc, hExit, Loaded, hWatch, hQuit, orphaned, nGone>>

\* The helper can be reached under the name the main process calls.
Reachable == hpc = "running" /\ ServiceName = hService

(* ------------------------------------------------------------------ *)
(* Main process: the supervisor                                        *)
(* ------------------------------------------------------------------ *)

\* The main process is running: it was not terminated and is on the bus.
MainRuns == parentAlive /\ mainExit = "none"

\* The unique name of the session bus connection, or empty when
\* Connection::get_sync throws.
UniqueNameAssumed == MainName
UniqueName == IF busOk THEN MainName ELSE NoName

\* GtkIntegration::Start(type)
Start(type) ==
    LET d == absolutePath(cWorkingDir)
        h == hashMd5Hex(d)
        dbusName == UniqueName
    IN
    /\ BaseServiceName' = IF type = Base THEN Arg(kBaseService, h)
                          ELSE BaseServiceName
    /\ ServiceName' = IF type = TDesktop THEN Arg(kService, h) ELSE ServiceName
    /\ launches' =
         IF type = Webview \/ dbusName = NoName THEN launches
         ELSE Append(launches,
                     [type |-> type,
                      parent |-> dbusName,
                      service |-> IF type = Base THEN Arg(kBaseService, h)
                                  ELSE Arg(kService, h)])

\* GtkIntegration::Autorestart(type): the watch list after the call.
Autorestart(type) ==
    IF type \notin Supervised \/ ~busOk THEN watches
    ELSE Append(watches,
                [type |-> type,
                 name |-> IF type = Base THEN BaseServiceName ELSE ServiceName])

(* ------------------------------------------------------------------ *)
(* Main process: the capability proxy in remoting mode                 *)
(* ------------------------------------------------------------------ *)

\* if (!_private->dbusConnection) return ...;
ConnectionIgnored(conn) == TRUE
LoadConnection(conn) == conn
ShowConnection(conn) == conn

\* if (_private->remoting) { ... return; }: the assignment Loaded = true at
\* the end of load is not reached by a remoting proxy.
RemotingFallsThrough(l) == TRUE
RemotingReturns(l) == l

\* GtkIntegration::load in remoting mode.  q is the notification queue the
\* caller leaves behind.
load(q) ==
    IF mainLoaded THEN
        \* Expects(!Loaded) fails: the main process is terminated
        /\ mainExit' = "crash"
        /\ notif' = q
        /\ UNCHANGED <<mainLoaded, loadDone, busCalls, helperVars, nGone>>
    ELSE
    /\ mainLoaded' = RemotingReturns(mainLoaded)
    /\ mainExit' = mainExit
    /\ loadDone' = TRUE
    /\ IF ~LoadConnection(busOk) THEN
           /\ notif' = q
           /\ UNCHANGED <<busCalls, helperVars, nGone>>
       ELSE
           /\ busCalls' = TRUE
           /\ IF Reachable
              THEN /\ \E instOk, gtkOk \in BOOLEAN :
                        handleMethodCall(MainName, "Load", instOk, gtkOk, FALSE, q)
                   /\ UNCHANGED <<parentDBusName, hService>>
              ELSE /\ notif' = q
                   /\ UNCHANGED <<helperVars, nGone>>

\* The application calls Start(type).
ApiStart(type) ==
    /\ MainRuns /\ mainPc = "idle"
    /\ nApi < MaxApi
    /\ nApi' = nApi + 1
    /\ Start(type)
    /\ UNCHANGED <<copyVars, cWorkingDir, autoSkipped, mainLoaded, mainExit,
                   busOk, parentAlive, watches, notif, mainPc, subs, sigQueue,
                   modal, showRet, busCalls, loadDone, helperVars, busVars,
                   nEnv, nShow>>

\* The application calls Autorestart(type).
ApiAutorestart(type) ==
    /\ MainRuns /\ mainPc = "idle"
    /\ nApi < MaxApi
    /\ nApi' = nApi + 1
    /\ watches' = Autorestart(type)
    /\ autoSkipped' = (autoSkipped \/ (type \in Supervised /\ watches' = watches))
    /\ UNCHANGED <<copyVars, cWorkingDir, mainLoaded, mainExit,
                   busOk, parentAlive, ServiceName, BaseServiceName, notif,
                   launches, mainPc, subs, sigQueue, modal, showRet, busCalls,
                   loadDone, helperVars, busVars, nEnv, nShow>>

\* The application calls load(AllowedBackends()).
ApiLoad ==
    /\ MainRuns /\ mainPc = "idle"
    /\ nApi < MaxApi
    /\ nApi' = nApi + 1
    /\ load(notif)
    /\ UNCHANGED <<copyVars, cWorkingDir, autoSkipped, reload,
                   busOk, parentAlive, ServiceName, BaseServiceName, watches,
                   launches, mainPc, subs, sigQueue, modal, showRet, baseName,
                   nAppear, respawn, lost, nEnv, nShow>>

\* The main loop dispatches one NameOwnerChanged notification to the
\* callback Autorestart installed.  The nested loop of showOpenWithDialog
\* runs a private context, so this happens only outside of it.
WatchCallback ==
    /\ MainRuns /\ mainPc = "idle"
    /\ notif # <<>>
    /\ LET n == Head(notif)
           type == watches[n.w].type
           q == Tail(notif)
       IN
       IF n.gone THEN
           /\ Start(type)
           /\ respawn' = [respawn EXCEPT ![type][n.ev] =
                             @ + (IF Len(launches') > Len(launches) THEN 1 ELSE 0)]
           /\ notif' = q
           /\ UNCHANGED <<busCalls, loadDone, mainLoaded, mainExit, reload,
                          helperVars, nGone>>
       ELSE IF type = Base THEN
           \* BaseGtkIntegration::Instance()->load: the base helper's own proxy
           /\ reload' = [reload EXCEPT ![type][n.ev] = @ + 1]
           /\ notif' = q
           /\ UNCHANGED <<ServiceName, BaseServiceName, launches, respawn,
                          busCalls, loadDone, mainLoaded, mainExit, helperVars,
                          nGone>>
       ELSE
           /\ reload' = [reload EXCEPT ![type][n.ev] = @ + 1]
           /\ load(q)
           /\ UNCHANGED <<ServiceName, BaseServiceName, launches, respawn>>
    /\ UNCHANGED <<copyVars, cWorkingDir, autoSkipped,
                   busOk, parentAlive, watches, mainPc, subs, sigQueue, modal,
                   showRet, baseName, nAppear, lost, nApi, nEnv, nShow>>

\* gsl::finally: if (signalId != 0) signal_unsubscribe(signalId);
SignalGuardMissing(signalId, n) == n
SignalGuard(signalId, n) == IF signalId # 0 THEN n - 1 ELSE n

\* GtkIntegration::showOpenWithDialog in remoting mode, up to the return of
\* call_sync: returns false at once without a connection or when the call
\* throws, and goes on to subscribe otherwise.
ShowCall ==
    /\ MainRuns /\ mainPc = "idle"
    /\ nApi < MaxApi
    /\ nApi' = nApi + 1
    /\ nShow' = nShow + 1
    /\ IF ~ShowConnection(busOk) THEN
           /\ showRet' = Append(showRet, FALSE)
           /\ UNCHANGED <<mainPc, busCalls, notif, helperVars, nGone>>
       ELSE
           /\ busCalls' = TRUE
           /\ IF Reachable
              THEN /\ \E instOk, dlgOk \in BOOLEAN :
                        handleMethodCall(MainName, "ShowOpenWithDialog",
                                         instOk, FALSE, dlgOk, notif)
                   /\ UNCHANGED <<parentDBusName, hService>>
                   /\ IF reply' = "ok"
                      THEN /\ mainPc' = "called"
                           /\ showRet' = showRet
                      ELSE /\ mainPc' = "idle"
                           /\ showRet' = Append(showRet, FALSE)
              ELSE /\ showRet' = Append(showRet, FALSE)
                   /\ UNCHANGED <<mainPc, notif, helperVars, nGone>>
    /\ UNCHANGED <<copyVars, cWorkingDir, autoSkipped, mainLoaded, mainExit, reload,
                   busOk, parentAlive, ServiceName, BaseServiceName, watches,
                   launches, subs, sigQueue, modal, loadDone, baseName,
                   nAppear, respawn, lost, nEnv>>

\* showOpenWithDialog after call_sync returned: create the private context
\* and loop, subscribe to OpenWithDialogResponse and, if the subscription
\* succeeded, show the modal window and run the loop.  With signalId = 0 the
\* function returns result (false) at once.
ShowSubscribe ==
    /\ MainRuns /\ mainPc = "called"
    /\ \E signalId \in {0, 1} :
         IF signalId # 0 THEN
             /\ subs' = subs + 1
             /\ modal' = TRUE
             /\ mainPc' = "loop"
             /\ UNCHANGED showRet
         ELSE
             /\ subs' = SignalGuard(signalId, subs)
             /\ mainPc' = "idle"
             /\ showRet' = Append(showRet, FALSE)
             /\ UNCHANGED modal
    /\ sigQueue' = <<>>
    /\ UNCHANGED <<copyVars, cWorkingDir, autoSkipped, mainLoaded, mainExit,
                   busOk, parentAlive, ServiceName, BaseServiceName, watches,
                   notif, launches, busCalls, loadDone, helperVars, busVars,
                   nApi, nEnv, nShow>>

\* The nested loop dispatches a delivered signal: result is set, the loop
\* quits, the modal window is hidden, the guards unsubscribe and pop the
\* context, and the function returns result.
ShowSignal ==
    /\ MainRuns /\ mainPc = "loop"
    /\ sigQueue # <<>>
    /\ showRet' = Append(showRet, Head(sigQueue))
    /\ sigQueue' = <<>>
    /\ modal' = FALSE
    /\ subs' = SignalGuard(1, subs)
    /\ mainPc' = "idle"
    /\ UNCHANGED <<copyVars, cWorkingDir, autoSkipped, mainLoaded, mainExit,
                   busOk, parentAlive, ServiceName, BaseServiceName, watches,
                   notif, launches, busCalls, loadDone, helperVars, busVars,
                   nApi, nEnv, nShow>>

\* The main process exits: its unique name loses its owner.  A helper whose
\* parent watcher is installed is notified and asks its loop to quit.
ParentVanish ==
    /\ parentAlive
    /\ parentAlive' = FALSE
    /\ hQuit' = (hQuit \/ hWatch)
    /\ orphaned' = (hpc # "none")
    /\ UNCHANGED <<copyVars, cWorkingDir, autoSkipped, mainLoaded, mainExit,
                   busOk, ServiceName, BaseServiceName, watches, notif,
                   launches, mainPc, subs, sigQueue, modal, showRet, busCalls,
                   loadDone, hpc, parentDBusName, hService, hWatch, Loaded,
                   hExit, calls, reply, busVars, nApi, nEnv, nShow>>

(* ------------------------------------------------------------------ *)
(* Helper process: lifecycle                                           *)
(* ------------------------------------------------------------------ *)

\* What dereferencing the null connection in exec() can do to the process:
\* it is killed by a signal, or it runs on with nothing registered on a bus.
NullConnectionOutcomes == {"signal", "stray"}

\* A spawned process runs GtkIntegration::Exec(TDesktop, parent, service)
\* and exec() up to register_object.  instOk: Instance() is not null; conn:
\* the helper's Private::dbusConnection is not null; regOk: register_object
\* does not throw.  Exec returns 1 without an instance; exec() has no check
\* of the connection and no handler for the exception of register_object,
\* which leaves Exec and terminates the process.
HelperExec(i) ==
    /\ launches[i].type = TDesktop
    /\ hpc = "none"
    /\ launches' = RemoveAt(launches, i)
    /\ \E instOk, conn, regOk \in BOOLEAN :
         IF ~instOk THEN
             /\ hExit' = "one"
             /\ UNCHANGED <<hpc, hService, parentDBusName>>
         ELSE IF ~conn THEN
             /\ \E o \in NullConnectionOutcomes : hExit' = o
             /\ UNCHANGED <<hpc, hService, parentDBusName>>
         ELSE IF ~regOk THEN
             /\ hExit' = "abort"
             /\ UNCHANGED <<hpc, hService, parentDBusName>>
         ELSE
             /\ nAppear[TDesktop] < MaxAppear
             /\ hService' = launches[i].service
             /\ parentDBusName' = launches[i].parent
             /\ hpc' = "registered"
             /\ hExit' = "none"
    /\ UNCHANGED <<copyVars, cWorkingDir, autoSkipped, mainLoaded, mainExit,
                   busOk, parentAlive, ServiceName, BaseServiceName, watches,
                   notif, mainPc, subs, sigQueue, modal, showRet, busCalls,
                   loadDone, hWatch, hQuit, Loaded, calls, reply,
                   busVars, nApi, nEnv, nShow, orphaned>>

\* A spawned process finds the service name already owned: it never becomes
\* the owner of the name, and no call addressed to the name reaches it.
HelperDuplicate(i) ==
    /\ launches[i].type = TDesktop
    /\ hpc # "none"
    /\ launches' = RemoveAt(launches, i)
    /\ UNCHANGED <<copyVars, cWorkingDir, autoSkipped, mainLoaded, mainExit,
                   busOk, parentAlive, ServiceName, BaseServiceName, watches,
                   notif, mainPc, subs, sigQueue, modal, showRet, busCalls,
                   loadDone, helperVars, busVars, nApi, nEnv, nShow>>

\* exec() from RegisterServiceWatcher to app->run: the parent watcher is
\* installed and the application takes its service name on the bus.
\* A parent that has already left the bus produces no notification.
HelperRun ==
    /\ hpc = "registered"
    /\ hWatch' = TRUE
    /\ hpc' = "running"
    /\ nAppear' = [nAppear EXCEPT ![TDesktop] = @ + 1]
    /\ notif' = notif \o Notifications(hService, FALSE, nAppear[TDesktop] + 1)
    /\ UNCHANGED <<copyVars, cWorkingDir, autoSkipped, mainLoaded, mainExit, reload,
                   busOk, parentAlive, ServiceName, BaseServiceName, watches,
                   launches, mainPc, subs, sigQueue, modal, showRet, busCalls,
                   loadDone, parentDBusName, hService, hQuit, Loaded, hExit,
                   calls, reply, baseName, nGone, respawn, lost, nApi, nEnv,
                   nShow, orphaned>>

\* The parent watcher's callback ran app->quit(): app->run returns 0.
HelperQuit ==
    /\ hpc = "running"
    /\ hQuit
    /\ HelperGone(notif, "zero")
    /\ UNCHANGED <<copyVars, cWorkingDir, autoSkipped, mainLoaded, mainExit, reload,
                   busOk, parentAlive, ServiceName, BaseServiceName, watches,
                   launches, mainPc, subs, sigQueue, modal, showRet, busCalls,
                   loadDone, parentDBusName, hService, reply, baseName,
                   nAppear, respawn, lost, nApi, nEnv, nShow>>

\* The helper process is killed from outside.
HelperKilled ==
    /\ hpc # "none"
    /\ nEnv < MaxEnv
    /\ nEnv' = nEnv + 1
    /\ HelperGone(notif, "killed")
    /\ UNCHANGED <<copyVars, cWorkingDir, autoSkipped, mainLoaded, mainExit, reload,
                   busOk, parentAlive, ServiceName, BaseServiceName, watches,
                   launches, mainPc, subs, sigQueue, modal, showRet, busCalls,
                   loadDone, parentDBusName, hService, reply, baseName,
                   nAppear, respawn, lost, nApi, nShow>>

\* delete dialog; at the end of the response handler
DialogKept == "open"
DialogDeleted == "done"

\* The dialog of call c completes with `response`: the handler installed by
\* handleMethodCall emits OpenWithDialogResponse to the parent (emit_signal
\* may throw, which is swallowed) and deletes the dialog.  The signal reaches
\* the caller's nested loop only through a subscription that exists.
DialogResponse(c, response, emitOk) ==
    /\ hpc = "running"
    /\ calls[c].dlg = "open"
    /\ calls' = [calls EXCEPT ![c].dlg = DialogDeleted,
                              ![c].sigs = IF emitOk THEN @ + 1 ELSE @,
                              ![c].threw = ~emitOk]
    /\ IF emitOk /\ parentAlive
       THEN IF subs > 0
            THEN sigQueue' = Append(sigQueue, response) /\ lost' = lost
            ELSE sigQueue' = sigQueue /\ lost' = lost + 1
       ELSE sigQueue' = sigQueue /\ lost' = lost
    /\ UNCHANGED <<copyVars, cWorkingDir, autoSkipped, mainLoaded, mainExit, reload,
                   busOk, parentAlive, ServiceName, BaseServiceName, watches,
                   notif, launches, mainPc, subs, modal, showRet, busCalls,
                   loadDone, hpc, parentDBusName, hService, hWatch, hQuit,
                   Loaded, hExit, reply, baseName, nAppear, nGone, respawn,
                   nApi, nEnv, nShow, orphaned>>

\* A method call from another client of the bus reaches the helper's loop.
ForeignCall(method) ==
    /\ hpc = "running"
    /\ nEnv < MaxEnv
    /\ nEnv' = nEnv + 1
    /\ \E instOk, gtkOk, dlgOk \in BOOLEAN :
         handleMethodCall(ForeignName, method, instOk, gtkOk, dlgOk, notif)
    /\ UNCHANGED <<copyVars, cWorkingDir, autoSkipped, mainLoaded, mainExit, reload,
                   busOk, parentAlive, ServiceName, BaseServiceName, watches,
                   launches, mainPc, subs, sigQueue, modal, showRet, busCalls,
                   loadDone, parentDBusName, hService, baseName, nAppear,
                   respawn, lost, nApi, nShow>>

\* The parent's connection sends a call whose method is neither Load nor
\* ShowOpenWithDialog.
ParentOther ==
    /\ MainRuns /\ mainPc = "idle"
    /\ Reachable
    /\ nEnv < MaxEnv
    /\ nEnv' = nEnv + 1
    /\ \E instOk, gtkOk, dlgOk \in BOOLEAN :
         handleMethodCall(MainName, "Other", instOk, gtkOk, dlgOk, notif)
    /\ UNCHANGED <<copyVars, cWorkingDir, autoSkipped, mainLoaded, mainExit, reload,
                   busOk, parentAlive, ServiceName, BaseServiceName, watches,
                   launches, mainPc, subs, sigQueue, modal, showRet, busCalls,
                   loadDone, parentDBusName, hService, baseName, nAppear,
                   respawn, lost, nApi, nShow>>

(* ------------------------------------------------------------------ *)
(* Base helper process                                                 *)
(* ------------------------------------------------------------------ *)

\* A spawned process runs Exec(Base, parent, service) and takes its name.
BaseExec(i) ==
    /\ launches[i].type = Base
    /\ baseName = EmptyService
    /\ nAppear[Base] < MaxAppear
    /\ baseName' = launches[i].service
    /\ launches' = RemoveAt(launches, i)
    /\ nAppear' = [nAppear EXCEPT ![Base] = @ + 1]
    /\ notif' = notif \o Notifications(launches[i].service, FALSE, nAppear[Base] + 1)
    /\ UNCHANGED <<copyVars, cWorkingDir, autoSkipped, mainLoaded, mainExit, reload,
                   busOk, parentAlive, ServiceName, BaseServiceName, watches,
                   mainPc, subs, sigQueue, modal, showRet, busCalls, loadDone,
                   helperVars, nGone, respawn, lost, nApi, nEnv, nShow>>

\* A spawned base helper finds the name owned and exits.
BaseDuplicate(i) ==
    /\ launches[i].type = Base
    /\ baseName # EmptyService
    /\ launches' = RemoveAt(launches, i)
    /\ UNCHANGED <<copyVars, cWorkingDir, autoSkipped, mainLoaded, mainExit,
                   busOk, parentAlive, ServiceName, BaseServiceName, watches,
                   notif, mainPc, subs, sigQueue, modal, showRet, busCalls,
                   loadDone, helperVars, busVars, nApi, nEnv, nShow>>

\* The base helper process is killed: its name loses its owner.
BaseKilled ==
    /\ baseName # EmptyService
    /\ nEnv < MaxEnv
    /\ nEnv' = nEnv + 1
    /\ baseName' = EmptyService
    /\ nGone' = [nGone EXCEPT ![Base] = @ + 1]
    /\ notif' = notif \o Notifications(baseName, TRUE, nGone[Base] + 1)
    /\ UNCHANGED <<copyVars, cWorkingDir, autoSkipped, mainLoaded, mainExit, reload,
                   busOk, parentAlive, ServiceName, BaseServiceName, watches,
                   launches, mainPc, subs, sigQueue, modal, showRet, busCalls,
                   loadDone, helperVars, nAppear, respawn, lost, nApi, nShow>>

(* ------------------------------------------------------------------ *)
(* Specification                                                       *)
(* ------------------------------------------------------------------ *)

MainStep ==
    \/ WatchCallback
    \/ ShowSubscribe
    \/ ShowSignal

HelperStep ==
    \/ \E i \in 1..Len(launches) : HelperExec(i)
    \/ \E i \in 1..Len(launches) : HelperDuplicate(i)
    \/ HelperRun
    \/ HelperQuit
    \/ \E i \in 1..Len(launches) : BaseExec(i)
    \/ \E i \in 1..Len(launches) : BaseDuplicate(i)

DialogStep ==
    \E c \in 1..Len(calls), response \in BOOLEAN : DialogResponse(c, response, TRUE)

Next ==
    \/ \E t \in Types : ApiStart(t)
    \/ \E t \in Types : ApiAutorestart(t)
    \/ ApiLoad
    \/ WatchCallback
    \/ ShowCall
    \/ ShowSubscribe
    \/ ShowSignal
    \/ ParentVanish
    \/ \E i \in 1..Len(launches) : HelperExec(i)
    \/ \E i \in 1..Len(launches) : HelperDuplicate(i)
    \/ HelperRun
    \/ HelperQuit
    \/ HelperKilled
    \/ \E c \in 1..Len(calls), response, emitOk \in BOOLEAN :
           DialogResponse(c, response, emitOk)
    \/ \E m \in Methods : ForeignCall(m)
    \/ ParentOther
    \/ \E i \in 1..Len(launches) : BaseExec(i)
    \/ \E i \in 1..Len(launches) : BaseDuplicate(i)
    \/ BaseKilled

Spec == Init /\ [][Next]_vars

\* The same program started under any of the working directories.
DirInit == InitWith(WorkingDirs) /\ CopyIdle
DirSpec == DirInit /\ [][Next]_vars

\* Both processes run an event loop that dispatches whatever is ready, and a
\* dialog that is open is eventually answered.  Nothing obliges the
\* application to call the API, nor anything to kill a process.
FairSpec ==
    /\ Spec
    /\ WF_vars(MainStep)
    /\ WF_vars(HelperStep)
    /\ WF_vars(DialogStep)

(* ------------------------------------------------------------------ *)
(* Send as copy: the functions                                         *)
(* ------------------------------------------------------------------ *)

\* TextUtilities::Trim
Trim(t) == IF t = " a " THEN "a" ELSE t

\* PrepareEditText(item): the item's text as it is edited.
PrepareEditText(i) == History[i].text

\* medias.empty() ? toSend.comment : TextWithTags(), with n entries so far
EveryEntryComment(n, comment) == comment
AlbumComment(n, comment) == IF n = 0 THEN comment ELSE ""

\* PrepareAlbumItemMedia
PrepareAlbumItemMedia(i, media, emptyText, comment) ==
    [item |-> i,
     media |-> media,
     message |-> IF emptyText THEN comment ELSE Trim(History[i].text)]

\* InputMediaFromItem
InputMediaFromItem(i) ==
    IF History[i].media = "document" THEN "inputMediaDocument"
    ELSE IF History[i].media = "photo" THEN "inputMediaPhoto"
    ELSE "inputMediaEmpty"

\* The loop of SendAlbumFromItems that fills medias.
Medias(its) ==
    [k \in 1..Len(its) |->
        PrepareAlbumItemMedia(its[k], InputMediaFromItem(its[k]),
                              toSend.emptyText,
                              AlbumComment(k - 1, toSend.comment))]

\* The reply a peer's drafts give: the local draft's if there is a local
\* draft, else the cloud draft's, else none (0).
DraftReply(peer, local, cloud) ==
    IF local[peer].exists THEN local[peer].reply
    ELSE IF cloud[peer].exists THEN cloud[peer].reply
    ELSE 0

\* ReplyToIdFromDraft(peer) on the state st of a running call: a reply that
\* exists clears both drafts and sends SaveDraft.
ReplyToIdFromDraft(peer, st) ==
    LET replyTo == DraftReply(peer, st.local, st.cloud)
    IN IF replyTo # 0
       THEN [st EXCEPT !.local[peer] = Absent,
                       !.cloud[peer] = Absent,
                       !.saves = Append(@, peer),
                       !.replyTo = replyTo]
       ELSE [st EXCEPT !.replyTo = 0]

\* The loop of SendAlbumFromItems over toSend.peers, from peer k on.
RECURSIVE AlbumPeers(_, _, _, _, _)
AlbumPeers(k, medias, ids, del, st) ==
    IF k > Len(toSend.peers) THEN st
    ELSE LET peer == toSend.peers[k]
             s1 == ReplyToIdFromDraft(peer, st)
             request == [peer |-> peer,
                         replyTo |-> s1.replyTo,
                         silent |-> toSend.silent,
                         schedule |-> IF toSend.scheduledDraft
                                      THEN ScheduledDraft ELSE 0,
                         medias |-> medias,
                         ids |-> ids,
                         andDelete |-> del,
                         state |-> "pending"]
         IN AlbumPeers(k + 1, medias, ids, del,
                       [s1 EXCEPT !.out = Append(@, request)])

\* SendAlbumFromItems(its, toSend, del)
SendAlbumFromItems(its, del) ==
    IF its = <<>> THEN
        UNCHANGED <<localDraft, cloudDraft, saveDrafts, requests>>
    ELSE
        LET st == AlbumPeers(1, Medias(its), its, del,
                             [local |-> localDraft, cloud |-> cloudDraft,
                              saves |-> saveDrafts, replyTo |-> 0,
                              out |-> requests])
        IN /\ localDraft' = st.local
           /\ cloudDraft' = st.cloud
           /\ saveDrafts' = st.saves
           /\ requests' = st.out

\* The loop of SendExistingMediaFromItem over toSend.peers, from peer k on.
\* MessageToSend(SendAction{ history }) starts with the default options.
RECURSIVE MediaPeers(_, _, _)
MediaPeers(k, item, st) ==
    IF k > Len(toSend.peers) THEN st
    ELSE LET peer == toSend.peers[k]
         IN IF History[item].media = NoMedia THEN
                MediaPeers(k + 1, item,
                    [st EXCEPT !.out = Append(@,
                        [peer |-> peer,
                         via |-> "sendMessage",
                         text |-> PrepareEditText(item),
                         silent |-> FALSE,
                         scheduled |-> 0,
                         replyTo |-> 0])])
            ELSE
                LET s1 == ReplyToIdFromDraft(peer, st)
                    message == [peer |-> peer,
                                via |-> IF History[item].media = "document"
                                        THEN "SendExistingDocument"
                                        ELSE "SendExistingPhoto",
                                text |-> IF toSend.emptyText THEN toSend.comment
                                         ELSE PrepareEditText(item),
                                silent |-> toSend.silent,
                                scheduled |-> IF toSend.scheduledDraft
                                              THEN ScheduledDraft ELSE 0,
                                replyTo |-> s1.replyTo]
                IN MediaPeers(k + 1, item,
                       IF History[item].media \in {"document", "photo"}
                       THEN [s1 EXCEPT !.out = Append(@, message)]
                       ELSE s1)

(* ------------------------------------------------------------------ *)
(* Send as copy: the calls and the request callbacks                   *)
(* ------------------------------------------------------------------ *)

\* The caller's arguments and the drafts before the call.  The items of an
\* album are media items: InputMediaFromItem reads i->media() unchecked.
CopyInputs ==
    /\ items \in Lists(1..Len(History), MaxItems)
    /\ toSend \in [peers : Lists(Peers, MaxPeers),
                   comment : Comments,
                   emptyText : BOOLEAN,
                   silent : BOOLEAN,
                   scheduledDraft : BOOLEAN]
    /\ andDelete \in BOOLEAN
    /\ localDraft = LocalDrafts
    /\ cloudDraft = CloudDrafts
    /\ cpc = "idle"
    /\ album = <<>>
    /\ requests = <<>>
    /\ saveDrafts = <<>>
    /\ sent = <<>>
    /\ deleted = {}

\* SendAlbumFromItems(items, toSend, andDelete) is called.
CallSendAlbumFromItems ==
    /\ cpc = "idle"
    /\ \A k \in DOMAIN items : History[items[k]].media # NoMedia
    /\ cpc' = "album"
    /\ album' = items
    /\ SendAlbumFromItems(items, andDelete)
    /\ UNCHANGED <<gtkVars, items, toSend, andDelete, sent, deleted>>

\* SendExistingAlbumFromItem(item, toSend) is called.
CallSendExistingAlbumFromItem ==
    /\ cpc = "idle"
    /\ Len(items) = 1
    /\ cpc' = "group"
    /\ IF History[items[1]].groupId = 0 THEN
           UNCHANGED <<album, localDraft, cloudDraft, saveDrafts, requests>>
       ELSE
           /\ album' = Group(items[1])
           /\ SendAlbumFromItems(Group(items[1]), FALSE)
    /\ UNCHANGED <<gtkVars, items, toSend, andDelete, sent, deleted>>

\* SendExistingMediaFromItem(item, toSend) is called.
CallSendExistingMediaFromItem ==
    /\ cpc = "idle"
    /\ Len(items) = 1
    /\ cpc' = "media"
    /\ LET st == MediaPeers(1, items[1],
                            [local |-> localDraft, cloud |-> cloudDraft,
                             saves |-> saveDrafts, replyTo |-> 0,
                             out |-> sent])
       IN /\ localDraft' = st.local
          /\ cloudDraft' = st.cloud
          /\ saveDrafts' = st.saves
          /\ sent' = st.out
    /\ UNCHANGED <<gtkVars, items, toSend, andDelete, album, requests, deleted>>

\* .done(...) of request r: the updates are applied and, with andDelete,
\* the source items are deleted.
RequestDone(r) ==
    /\ requests[r].state = "pending"
    /\ requests' = [requests EXCEPT ![r].state = "done"]
    /\ deleted' = IF requests[r].andDelete
                  THEN deleted \cup {requests[r].ids[k] : k \in DOMAIN requests[r].ids}
                  ELSE deleted
    /\ UNCHANGED <<gtkVars, items, toSend, andDelete, localDraft, cloudDraft,
                   cpc, album, saveDrafts, sent>>

\* .fail(...) of request r: nothing is done.
RequestFail(r) ==
    /\ requests[r].state = "pending"
    /\ requests' = [requests EXCEPT ![r].state = "failed"]
    /\ UNCHANGED <<gtkVars, items, toSend, andDelete, localDraft, cloudDraft,
                   cpc, album, saveDrafts, sent, deleted>>

CopyNext ==
    \/ CallSendAlbumFromItems
    \/ CallSendExistingAlbumFromItem
    \/ CallSendExistingMediaFromItem
    \/ \E r \in DOMAIN requests : RequestDone(r)
    \/ \E r \in DOMAIN requests : RequestFail(r)

\* One send-as-copy call with any arguments, and the answers to its requests.
CopyInit == InitWith({"/home/u/app/"}) /\ busOk /\ CopyInputs
CopySpec == CopyInit /\ [][CopyNext]_vars

(* ------------------------------------------------------------------ *)
(* Properties                                                          *)
(* ------------------------------------------------------------------ *)

\* C1: a method call whose sender is not the recorded parent is answered
\* with access-denied and changes nothing: the helper keeps running, no load
\* is performed, no dialog is created, nothing reaches the main process,
\* and no signal is ever emitted for the denied call.
C1_AccessDenied ==
    /\ [][(\E m \in Methods : ForeignCall(m)) =>
            /\ reply' = "denied"
            /\ UNCHANGED <<hpc, hExit, Loaded, hWatch, hQuit, sigQueue, lost,
                           notif, launches, nGone>>
            /\ \A c \in DOMAIN calls' :
                 IF c \in DOMAIN calls THEN calls'[c] = calls[c]
                 ELSE calls'[c].reply = "denied" /\ calls'[c].dlg = "none"]_vars
    /\ [](\A c \in DOMAIN calls :
            calls[c].reply = "denied" => calls[c].dlg = "none" /\ calls[c].sigs = 0)

\* C1 witness: a denied ShowOpenWithDialog call was followed by one from the
\* parent that was answered with success and got its dialog.
C1_Witness ==
    \E c, d \in DOMAIN calls :
        /\ c < d
        /\ calls[c].reply = "denied"
        /\ calls[d].reply = "ok"
        /\ calls[d].dlg = "open"

\* C2: every OpenWithDialogResponse emitted for a call of the main process
\* is emitted while the caller's subscription exists; none is lost.
C2_NoLostResponse == lost = 0

\* C3: every showOpenWithDialog call of a main process that stays alive
\* eventually returns.
C3_ShowReturns == (mainPc # "idle") ~> (mainPc = "idle" \/ ~parentAlive)

\* C4 as stated: per ShowOpenWithDialog call at most one signal, none for a
\* call answered with an error, none when the helper is torn down first,
\* and exactly one whenever the dialog completes.
C4_Original ==
    \A c \in DOMAIN calls :
        /\ calls[c].sigs <= 1
        /\ calls[c].reply # "ok" => calls[c].sigs = 0
        /\ calls[c].dlg \in {"open", "torn"} => calls[c].sigs = 0
        /\ calls[c].dlg = "done" => calls[c].sigs = 1

\* C4 amended: per ShowOpenWithDialog call at most one signal, none for a
\* call answered with an error, none while the dialog is open or when the
\* helper is torn down first; a completed dialog has emitted exactly one
\* signal unless emit_signal threw, and then none.
C4_AtMostOnce ==
    \A c \in DOMAIN calls :
        /\ calls[c].sigs <= 1
        /\ calls[c].reply # "ok" => calls[c].sigs = 0 /\ calls[c].dlg = "none"
        /\ calls[c].dlg \in {"open", "torn"} => calls[c].sigs = 0
        /\ calls[c].dlg = "done" =>
             calls[c].sigs = (IF calls[c].threw THEN 0 ELSE 1)

\* C4 witness: one call's dialog completed and emitted its signal, another
\* call was answered with an error.
C4_Witness ==
    \E c, d \in DOMAIN calls :
        /\ calls[c].reply = "ok" /\ calls[c].dlg = "done" /\ calls[c].sigs = 1
        /\ calls[d].reply # "ok"

\* C5: every showOpenWithDialog invocation that is over has produced
\* exactly one result, and outside an invocation no subscription of it is
\* left on the connection (nor a modal window shown).
C5_ResolvesOnce ==
    /\ nShow = Len(showRet) + (IF mainPc = "idle" THEN 0 ELSE 1)
    /\ subs \in {0, 1}
    /\ mainPc = "idle" => subs = 0 /\ ~modal
    /\ mainPc = "loop" => subs = 1

\* C5 witness: an invocation returned true, which only a received signal
\* gives, and another returned false; the main thread is outside of them.
C5_Witness ==
    /\ mainPc = "idle"
    /\ \E i, j \in DOMAIN showRet : showRet[i] = TRUE /\ showRet[j] = FALSE

\* C6: no disappearance of a supervised service name makes the watch
\* callbacks spawn more than one new helper.
C6_OneRespawn ==
    \A t \in Supervised : \A e \in 1..MaxAppear : respawn[t][e] <= 1

\* C7: at most one service watch is installed per integration type.
C7_OneWatchPerType ==
    \A t \in Supervised :
        Cardinality({i \in DOMAIN watches : watches[i].type = t}) <= 1

\* C8: the helper process never dies inside a method handler.
C8_HelperNeverCrashes == hExit # "crash"

\* C9: without a session bus connection load and showOpenWithDialog issue
\* no bus call, subscribe to nothing, run no nested loop, show no modal
\* window, and showOpenWithDialog returns false.
C9_DegradedFallback ==
    ~busOk =>
        /\ ~busCalls
        /\ subs = 0
        /\ mainPc = "idle"
        /\ ~modal
        /\ \A i \in DOMAIN showRet : showRet[i] = FALSE
        /\ nShow = Len(showRet)

\* C9 witness: without a bus, load has returned and showOpenWithDialog has
\* returned.
C9_Witness == ~busOk /\ loadDone /\ Len(showRet) >= 1

\* C10: a helper whose parent left the bus after the helper registered its
\* object eventually ends, and the helper leaves its loop with exit code 0
\* only after the parent left.
C10_QuitsOnParentLoss ==
    /\ orphaned ~> (hpc = "none")
    /\ [](hExit = "zero" => ~parentAlive)

\* C11: the main process is never terminated by this subsystem: at every
\* call of load in the main process, the watch callback's calls included,
\* the precondition that nothing was loaded yet holds.
C11_MainNeverTerminated == mainExit = "none" /\ ~mainLoaded

\* C11 witness: the watch callback has issued load for the first appearance
\* of the application helper and again for its reappearance, and the main
\* process runs.
C11_Witness ==
    /\ reload[TDesktop][1] >= 1
    /\ reload[TDesktop][2] >= 1
    /\ respawn[TDesktop][1] >= 1
    /\ MainRuns

\* C12: each appearance of a supervised helper's service name is answered
\* by the watch callbacks with one Load, not more.
C12_OneLoadPerAppearance ==
    \A t \in Supervised : \A e \in 1..MaxAppear : reload[t][e] <= 1

\* C13: for a fixed working directory every service name Start computes is
\* the type's template filled with the md5 hex digest of the directory's
\* absolute path: names of one type are all equal, across invocations and
\* restarts, and the names of types Base and TDesktop differ.
C13_IdentityStable ==
    LET h == hashMd5Hex(absolutePath(cWorkingDir))
        names == {launches[i].service : i \in DOMAIN launches}
                     \cup ({ServiceName, BaseServiceName, hService, baseName}
                               \ {EmptyService})
                     \cup {watches[i].name : i \in {j \in DOMAIN watches :
                                                     watches[j].name # EmptyService}}
    IN  /\ names \subseteq {Arg(kService, h), Arg(kBaseService, h)}
        /\ ServiceName \in {EmptyService, Arg(kService, h)}
        /\ BaseServiceName \in {EmptyService, Arg(kBaseService, h)}
        /\ \A i, j \in DOMAIN launches :
              (launches[i].type = launches[j].type)
                  <=> (launches[i].service = launches[j].service)
        /\ \A i \in DOMAIN launches :
              launches[i].service =
                  Arg(IF launches[i].type = Base THEN kBaseService ELSE kService, h)
        /\ hService \in {EmptyService, Arg(kService, h)}
        /\ baseName \in {EmptyService, Arg(kBaseService, h)}

\* C13 witness: a helper of each type is being spawned, the application
\* helper by the Start of a watch callback after its predecessor was lost,
\* under the name the predecessor had.
C13_Witness ==
    \E i, j \in DOMAIN launches :
        /\ launches[i].type = Base
        /\ launches[j].type = TDesktop
        /\ respawn[TDesktop][1] = 1
        /\ hService = launches[j].service

\* C14: a call of the parent whose method is neither Load nor
\* ShowOpenWithDialog, or for which Instance() is null, is answered with the
\* unknown-method error and has no effect: nothing is loaded, no dialog is
\* created, no signal is emitted and the helper keeps running.
C14_UnknownMethod ==
    [][\A m \in Methods : \A instOk, gtkOk, dlgOk \in BOOLEAN :
          (/\ hpc = "running"
           /\ m = "Other" \/ ~instOk
           /\ handleMethodCall(parentDBusName, m, instOk, gtkOk, dlgOk, notif'))
          => /\ reply' = "unknown"
             /\ UNCHANGED <<hpc, hExit, Loaded, hWatch, hQuit, nGone>>
             /\ \A c \in DOMAIN calls' :
                  IF c \in DOMAIN calls THEN calls'[c] = calls[c]
                  ELSE /\ calls'[c].reply = "unknown"
                       /\ calls'[c].dlg = "none"
                       /\ calls'[c].sigs = 0]_vars

\* C14 witness: the running helper answered unknown-method to a call that
\* was not ShowOpenWithDialog, and nothing is loaded.
C14_Witness ==
    /\ hpc = "running"
    /\ reply = "unknown"
    /\ calls = <<>>
    /\ ~Loaded

\* C15: without a session bus connection in the main process Start spawns
\* no helper and Autorestart installs no watch, and the main process runs on.
C15_SupervisionSkipped ==
    ~busOk =>
        /\ launches = <<>>
        /\ watches = <<>>
        /\ notif = <<>>
        /\ hpc = "none"
        /\ baseName = EmptyService
        /\ mainExit = "none"

\* C15 witness: without a bus, Start has run for both supervised types and
\* Autorestart has returned for a supervised type.
C15_Witness ==
    /\ ~busOk
    /\ ServiceName # EmptyService
    /\ BaseServiceName # EmptyService
    /\ autoSkipped

\* C16: a helper whose startup fails ends by Exec returning a non-zero exit
\* code: it is neither terminated abnormally nor left running.
C16_StartupFailureExitCode == hExit \notin {"signal", "stray", "abort"}

\* C20: every method call dispatched gets exactly one reply, success or
\* error, and a signal is emitted only for a call that got the success reply.
C20_ExactlyOneReply ==
    /\ reply # "none"
    /\ \A c \in DOMAIN calls :
          /\ calls[c].reply \in {"ok", "denied", "unknown"}
          /\ calls[c].sigs > 0 => calls[c].reply = "ok"

\* C17: every message SendExistingMediaFromItem sends carries the requested
\* options, for a media item and for a text item alike: the silent flag, the
\* scheduled time when scheduledDraft is set, and the reply of the peer's
\* draft.
C17_OptionsApplied ==
    cpc = "media" =>
        \A m \in DOMAIN sent :
            /\ sent[m].silent = toSend.silent
            /\ sent[m].scheduled = (IF toSend.scheduledDraft THEN ScheduledDraft ELSE 0)
            /\ sent[m].replyTo = DraftReply(sent[m].peer, LocalDrafts, CloudDrafts)

\* C18: source items are deleted only by a successful send of
\* SendAlbumFromItems with andDelete, and not while a send to any target
\* peer has failed or is outstanding.
C18_DeleteAfterAllSent ==
    deleted # {} =>
        /\ andDelete
        /\ cpc = "album"
        /\ \A r \in DOMAIN requests : requests[r].state = "done"

\* C19: SendAlbumFromItems sends nothing for an empty item list, and else
\* one request per target peer, in order, each with one entry per item in
\* the order of the items; the first entry's text is the comment when
\* emptyText is set, every other entry's text is empty when emptyText is set,
\* and without emptyText each entry's text is its own trimmed caption.
C19_OneRequestPerPeer ==
    cpc \in {"album", "group"} =>
        IF album = <<>> THEN requests = <<>>
        ELSE /\ Len(requests) = Len(toSend.peers)
             /\ \A r \in DOMAIN requests :
                  /\ requests[r].peer = toSend.peers[r]
                  /\ Len(requests[r].medias) = Len(album)
                  /\ \A k \in DOMAIN album :
                       /\ requests[r].medias[k].item = album[k]
                       /\ requests[r].medias[k].message =
                            (IF toSend.emptyText
                             THEN (IF k = 1 THEN toSend.comment ELSE "")
                             ELSE Trim(History[album[k]].text))

\* C19 witness: an album of two items was sent to two peers with the
\* comment as the text of the first entry.
C19_Witness ==
    /\ cpc = "album"
    /\ Len(album) = 2
    /\ Len(requests) = 2
    /\ toSend.emptyText
    /\ toSend.comment = "hi"
    /\ requests[2].medias[1].message = "hi"
    /\ requests[2].medias[2].message = ""

\* C21: for type TDesktop the name every Autorestart watch observes and the
\* name the proxy's calls are addressed to equal the service name given to
\* every helper Start has spawned, whether it is still starting or runs.
C21_NamesAgree ==
    LET given == {launches[i].service :
                     i \in {j \in DOMAIN launches : launches[j].type = TDesktop}}
                     \cup (IF hpc # "none" THEN {hService} ELSE {})
        observed == {watches[i].name :
                        i \in {j \in DOMAIN watches : watches[j].type = TDesktop}}
    IN \A n \in given :
           /\ ServiceName = n
           /\ \A w \in observed : w = n

====
